---- MODULE Spec2Model ----
(***************************************************************************)
(* Model of the untun-mcp tunnel manager: the in-memory registry           *)
(* (activeTunnels), the persisted registry file, the three tool handlers   *)
(* (start_tunnel, stop_tunnel, list_tunnels), the callbacks of a launched  *)
(* tunnel process, and the two process killers (closeSpecificTunnel,       *)
(* killTunnelProcesses) acting on the operating system's process table.    *)
(*                                                                         *)
(* Strings whose content the code inspects (URLs, command lines) are       *)
(* sequences of tokens, so that includes(), grep and the regular           *)
(* expressions are computed on them.                                       *)
(***************************************************************************)
EXTENDS Integers, Sequences, FiniteSets, TLC

(* ------------------------------ bounds --------------------------------- *)

\* How many steps (tool calls, restarts, process callbacks, and changes the
\* environment makes to the process table and the file) one behaviour holds.
MaxSteps == 3

\* The same for the behaviours of one tunnel name and its callbacks.
MaxCallbackSteps == 5

(* ------------------------------ values --------------------------------- *)

\* pid?: number -- an absent pid; `if (pid)` treats undefined and 0 alike.
NoPid == 0

\* os.hostname() of the machine the modelled server runs on, and of another
\* machine that shares the registry file.
ThisHost == "thishost"
OtherHost == "otherhost"

\* Tunnel names a caller passes (non-empty strings), and the absent name.
Names == {"web", "api"}
NoName == "(undefined)"

\* The names list_tunnels generates: `auto-detected-${length + 1}`.
AutoName(i) ==
  CASE i = 1 -> "auto-detected-1"
    [] i = 2 -> "auto-detected-2"
    [] i = 3 -> "auto-detected-3"
    [] OTHER -> "auto-detected-4"

\* Local URLs: http://localhost:3000 and http://localhost:30001. The second
\* one's host:port contains the first one's as a substring.
Url3000 == <<"http", "://", "localhost", ":", "3000">>
Url30001 == <<"http", "://", "localhost", ":", "3000", "1">>
Urls == {Url3000, Url30001}

\* publicUrl: string | null
Null == <<>>

\* The public address the tunnel of process pid is given, as the process
\* prints it: each tunnel gets a hostname of its own.
PublicUrlOf(pid) ==
  <<"https", "://", IF pid = 1 THEN "abc" ELSE "xyz", ".trycloudflare.com">>

\* Values of new Date() at the moment a record is created.
Times == {2}

\* The process ids of this machine.
Pids == {1, 2}

(* ------------------------- strings as tokens --------------------------- *)

\* s.includes(pat): pat occurs in s as a contiguous run of tokens.
Includes(s, pat) ==
  \E i \in 0..(Len(s) - Len(pat)) :
    \A k \in 1..Len(pat) : s[i + k] = pat[k]

\* The tokens of s from position i up to the next blank (or the end): [^\s]+
NonBlankRun(s, i) ==
  LET stops == {j \in i..Len(s) : s[j] = " "}
      end == IF stops = {} THEN Len(s) + 1
             ELSE CHOOSE j \in stops : \A k \in stops : j <= k
  IN SubSeq(s, i, end - 1)

\* url.replace(/^https?:\/\//, "")
CleanUrl(url) ==
  IF Len(url) >= 2 /\ url[1] = "http" /\ url[2] = "://"
    THEN SubSeq(url, 3, Len(url))
  ELSE IF Len(url) >= 2 /\ url[1] = "https" /\ url[2] = "://"
    THEN SubSeq(url, 3, Len(url))
  ELSE url

\* The capture of /<marker>\s+(https?:\/\/[^\s]+)/ in a command line, or Null
\* when the expression does not match. marker is a run of tokens.
UrlAfter(cmd, marker) ==
  LET m == Len(marker)
      hits == {i \in 1..Len(cmd) :
                 /\ i + m + 3 <= Len(cmd)
                 /\ \A k \in 1..m : cmd[i + k - 1] = marker[k]
                 /\ cmd[i + m] = " "
                 /\ cmd[i + m + 1] \in {"http", "https"}
                 /\ cmd[i + m + 2] = "://"
                 /\ cmd[i + m + 3] # " "}
  IN IF hits = {} THEN Null
     ELSE LET i == CHOOSE h \in hits : \A k \in hits : h <= k
          IN NonBlankRun(cmd, i + m + 1)

\* The capture of /(https?:\/\/[a-z0-9-]+\.trycloudflare\.com)/i, or Null.
PublicUrlIn(cmd) ==
  LET hits == {i \in 1..Len(cmd) :
                 /\ i + 3 <= Len(cmd)
                 /\ cmd[i] \in {"http", "https"}
                 /\ cmd[i + 1] = "://"
                 /\ cmd[i + 2] \notin {" ", "://", ":"}
                 /\ cmd[i + 3] = ".trycloudflare.com"}
  IN IF hits = {} THEN Null
     ELSE LET i == CHOOSE h \in hits : \A k \in hits : h <= k
          IN SubSeq(cmd, i, i + 3)

(* --------------------------- command lines ----------------------------- *)

\* exec(`npx untun tunnel ${url}`) runs the command through the shell.
LauncherCmd(url) ==
  <<"sh", " ", "-c", " ", "npx", " ", "untun", " ", "tunnel", " ">> \o url

\* The tunnel binary untun starts for a local URL.
BinaryCmd(url) ==
  <<"node-untun", "/", "cloudflared", " ", "tunnel", " ", "--url", " ">> \o url

\* The same two shapes carrying an authentication token.
WithToken(cmd) == cmd \o <<" ", "--token", " ", "secret">>

\* A process that has nothing to do with tunnels.
OtherCmd == <<"node", " ", "server.js">>

\* The command lines the environment may start.
Cmds ==
  {LauncherCmd(u) : u \in Urls} \cup {BinaryCmd(u) : u \in Urls}
    \cup {WithToken(BinaryCmd(Url3000)), WithToken(LauncherCmd(Url3000)), OtherCmd}

(* ------------------------------ records -------------------------------- *)

\* A JavaScript Date: a time value in ms, or the Invalid Date.
DateOf(t) == [valid |-> TRUE, ms |-> t]
InvalidDate == [valid |-> FALSE, ms |-> 0]

\* Date.prototype.toISOString() of a valid date (it throws on Invalid Date).
ToISOString(d) == [fmt |-> "iso", ms |-> d.ms]

\* new Date(string): the date an ISO string denotes, else Invalid Date.
ParseDate(s) == IF s.fmt = "iso" THEN DateOf(s.ms) ELSE InvalidDate

\* TunnelInfo. isRemote and isDetected are optional in the code and only
\* ever tested for truthiness: an absent flag is FALSE here. The `tunnel`
\* member (the close closure) is called by no handler and is left out.
\* origin is a history field the code does not have: the machine on which
\* the record was created. No operation of the model reads it.
TunnelInfo(url, publicUrl, created, pid, hostId, isRemote, isDetected, origin) ==
  [url |-> url, publicUrl |-> publicUrl, created |-> created, pid |-> pid,
   hostId |-> hostId, isRemote |-> isRemote, isDetected |-> isDetected,
   origin |-> origin]

\* The empty Map.
EmptyRegistry == [n \in {} |-> TunnelInfo(Null, Null, InvalidDate, NoPid, "", FALSE, FALSE, "")]

\* The order in which the entries of a Map are written out. (A Map keeps
\* insertion order; the model keeps a registry as a function and writes it
\* out in this fixed order.)
NameOrder ==
  <<"web", "api", AutoName(1), AutoName(2), AutoName(3), AutoName(4)>>

AllNames == {NameOrder[i] : i \in 1..Len(NameOrder)}

(* ------------------------ saveTunnels / loadTunnels --------------------- *)

\* The persisted file: absent, holding a JSON array, or holding text that
\* JSON.parse rejects. `from` is a history field: the registry and the host
\* of the saveTunnels call that wrote the array.
NoSave == [reg |-> EmptyRegistry, host |-> ""]
MissingFile == [state |-> "missing", data |-> <<>>, from |-> NoSave]
UnparsableFile == [state |-> "bad", data |-> <<>>, from |-> NoSave]

\* An element of the array that is not an object (null): reading its name
\* throws a TypeError.
NullEntry ==
  [name |-> "(null)", url |-> Null, publicUrl |-> Null,
   created |-> [fmt |-> "undefined", ms |-> 0], pid |-> NoPid, hostId |-> "",
   origin |-> ""]

\* An element that lacks the `created` field.
WithoutCreated(e) == [e EXCEPT !.created = [fmt |-> "undefined", ms |-> 0]]
FileOf(data, reg, host) ==
  [state |-> "ok", data |-> data, from |-> [reg |-> reg, host |-> host]]

\* A variant of the stored element that loses the public URL.
StoredEntryWithoutPublicUrl(name, info, host) ==
  [name |-> name, url |-> info.url, publicUrl |-> Null,
   created |-> ToISOString(info.created), pid |-> info.pid, hostId |-> host,
   origin |-> info.origin]

\* One element of tunnelsData as saveTunnels builds it.
StoredEntry(name, info, host) ==
  [name |-> name, url |-> info.url, publicUrl |-> info.publicUrl,
   created |-> ToISOString(info.created), pid |-> info.pid, hostId |-> host,
   origin |-> info.origin]

\* A variant of the array that leaves out the records of other machines.
TunnelsDataLocalOnly(reg, host) ==
  LET present == SelectSeq(NameOrder, LAMBDA n : n \in DOMAIN reg /\ ~reg[n].isRemote)
  IN [i \in 1..Len(present) |-> StoredEntry(present[i], reg[present[i]], host)]

\* Array.from(activeTunnels.entries()).map(...)
TunnelsData(reg, host) ==
  LET present == SelectSeq(NameOrder, LAMBDA n : n \in DOMAIN reg)
  IN [i \in 1..Len(present) |-> StoredEntry(present[i], reg[present[i]], host)]

\* toISOString throws a RangeError on an Invalid Date; the try block of
\* saveTunnels catches it before anything is written.
CanSerialize(reg) == \A n \in DOMAIN reg : reg[n].created.valid

\* A variant of the save that keeps the elements of the old file whose names
\* the registry does not hold.
SaveTunnelsMerging(reg, host, f, writeOk) ==
  IF writeOk /\ CanSerialize(reg)
    THEN FileOf(TunnelsData(reg, host)
                  \o SelectSeq(f.data, LAMBDA e : e.name \notin DOMAIN reg),
                reg, host)
  ELSE f

\* saveTunnels: the file after the call. writeOk says whether writeFileSync
\* succeeds; every failure is caught and logged.
SaveTunnels(reg, host, f, writeOk) ==
  IF writeOk /\ CanSerialize(reg) THEN FileOf(TunnelsData(reg, host), reg, host) ELSE f

\* How a call of saveTunnels ended. logOk says whether debugLog can append
\* to the debug log during the call. debugLog is called at the end of the try
\* block and again in the catch block, where nothing catches what it throws:
\* "raised" is a call that threw to its caller.
SaveOutcome(reg, writeOk, logOk) ==
  IF writeOk /\ CanSerialize(reg)
    THEN IF logOk THEN "ok" ELSE "raised_after_write"
  ELSE IF logOk THEN "failed" ELSE "raised"

\* The call of saveTunnels threw to its caller.
SaveRaised(saved) == saved \in {"raised", "raised_after_write"}

\* The record loadTunnels builds from one stored entry.
LoadedInfo(e, host) ==
  TunnelInfo(e.url, e.publicUrl, ParseDate(e.created), e.pid, e.hostId,
             e.hostId # host, FALSE, e.origin)

\* One turn of tunnelsData.forEach: an entry whose name is already a key is
\* skipped.
LoadEntry(reg, e, host) ==
  IF e.name \in DOMAIN reg THEN reg
  ELSE (e.name :> LoadedInfo(e, host)) @@ reg

\* tunnelsData.forEach: the callback throws at an element that is not an
\* object, and the elements before it have been set by then.
RECURSIVE LoadEntries(_, _, _)
LoadEntries(reg, data, host) ==
  IF data = <<>> \/ Head(data) = NullEntry THEN reg
  ELSE LoadEntries(LoadEntry(reg, Head(data), host), Tail(data), host)

\* loadTunnels: the registry after the call. A missing file returns early; a
\* file JSON.parse rejects throws into the catch block.
LoadTunnels(reg, f, host) ==
  IF f.state = "ok" THEN LoadEntries(reg, f.data, host) ELSE reg

\* Whether the try block of loadTunnels throws: JSON.parse on text it
\* rejects, or the forEach callback on an element that is not an object.
LoadThrows(f) ==
  \/ f.state = "bad"
  \/ f.state = "ok" /\ \E i \in 1..Len(f.data) : f.data[i] = NullEntry

\* How a call of loadTunnels ended. A missing file returns before anything
\* is logged to the debug log. Otherwise debugLog is called at the end of the
\* try block and again in the catch block, where nothing catches what it
\* throws: "raised" is a call that threw to its caller.
LoadOutcome(f, logOk) ==
  IF f.state = "missing" THEN "ok"
  ELSE IF ~logOk THEN "raised"
  ELSE IF LoadThrows(f) THEN "failed"
  ELSE "ok"

(* --------------------------- process table ----------------------------- *)

\* One row of the process table: a live process with its command line and
\* parent pid (0: a parent outside the table), or a free pid.
Proc(cmd, ppid) == [alive |-> TRUE, cmd |-> cmd, ppid |-> ppid]
NoProc == [alive |-> FALSE, cmd |-> <<>>, ppid |-> 0]

\* The table after the processes in `gone` have exited: their children are
\* re-parented outside the table.
Reap(table, gone) ==
  [p \in DOMAIN table |->
     IF p \in gone THEN NoProc
     ELSE IF table[p].alive /\ table[p].ppid \in gone
       THEN Proc(table[p].cmd, 0)
     ELSE table[p]]

\* One signal sent with `kill`: the pid, the signal and the command line of
\* the process that held the pid when it was sent.
Signal(table, pid, sig) == [pid |-> pid, sig |-> sig, cmd |-> table[pid].cmd]

\* A set of pids as the sequence in which ps and pgrep print them.
RECURSIVE PidSeq(_)
PidSeq(S) ==
  IF S = {} THEN <<>>
  ELSE LET p == CHOOSE x \in S : \A y \in S : x <= y
       IN <<p>> \o PidSeq(S \ {p})

\* Signals `sig` to each pid of S, in pid order.
SignalAll(table, S, sig) ==
  LET ps == PidSeq(S) IN [i \in 1..Len(ps) |-> Signal(table, ps[i], sig)]

(* ------------------------- closeSpecificTunnel ------------------------- *)

\* What one run of a killer did: the signals it sent, in order; the process
\* table it leaves; whether its transcript holds a warning.
KillOutcome(signals, table, warned) ==
  [signals |-> signals, procs |-> table, warned |-> warned]

\* `ps -p ${pid}` succeeds.
IsAlive(table, pid) == pid \in DOMAIN table /\ table[pid].alive

\* `pgrep -P ${pid}`: the live direct children of pid.
ChildrenOf(table, pid) == {c \in DOMAIN table : table[c].alive /\ table[c].ppid = pid}

\* processCmd.includes("cloudflared")
IsCloudflaredChild(cmd) == Includes(cmd, <<"cloudflared">>)

\* The pid branch: the main process is signalled when `ps -p` finds it, with
\* no look at its command line; then the children that pgrep lists and whose
\* command line names cloudflared. The main process may have exited (and its
\* children been re-parented) by the time pgrep runs: parentExits.
CloseByPid(pid, table, parentExits) ==
  LET alive == IsAlive(table, pid)
      first == IF alive THEN <<Signal(table, pid, "TERM")>> ELSE <<>>
      table1 == IF alive /\ parentExits THEN Reap(table, {pid}) ELSE table
      targets == {c \in ChildrenOf(table1, pid) : IsCloudflaredChild(table1[c].cmd)}
  IN KillOutcome(first \o SignalAll(table1, targets, "TERM"), table1, FALSE)

\* `ps aux | grep cloudflared | grep "${cleanUrl}" | grep -v grep`
MatchesUrl(cmd, url) ==
  Includes(cmd, <<"cloudflared">>) /\ Includes(cmd, CleanUrl(url))

\* The branch without a pid: every cloudflared process whose command line
\* contains the URL without its scheme is signalled, after a warning.
CloseByUrl(url, table) ==
  LET targets == {p \in DOMAIN table : table[p].alive /\ MatchesUrl(table[p].cmd, url)}
  IN KillOutcome(SignalAll(table, targets, "TERM"), table, TRUE)

\* closeSpecificTunnel with a branch it does not have: a recorded pid that
\* is not alive falls back to the search by address.
CloseSpecificTunnelFallingBack(url, pid, table) ==
  IF pid # NoPid /\ IsAlive(table, pid)
    THEN {CloseByPid(pid, table, x) : x \in BOOLEAN}
  ELSE {KillOutcome(CloseByUrl(url, table).signals, table, pid = NoPid)}

\* closeSpecificTunnel(url, pid): the outcomes the call can have.
CloseSpecificTunnel(url, pid, table) ==
  IF pid # NoPid
    THEN {CloseByPid(pid, table, x) : x \in IF IsAlive(table, pid) THEN BOOLEAN ELSE {FALSE}}
  ELSE {CloseByUrl(url, table)}

(* ------------------------- killTunnelProcesses ------------------------- *)

\* The filter of killTunnelProcesses on the rows of getCloudflaredDetails.
IsUntunCloudflared(cmd) ==
  /\ Includes(cmd, <<"cloudflared">>)
  /\ \/ Includes(cmd, <<"node-untun">>)
     \/ Includes(cmd, <<"--url", " ", "http">>)
     \/ Includes(cmd, <<"tunnel", " ", "--url">>)
  /\ ~Includes(cmd, <<"--token">>)

\* findPidsByPattern("untun tunnel")
IsUntunLauncher(cmd) == Includes(cmd, <<"untun", " ", "tunnel">>)

UntunCloudflaredPids(table) ==
  {p \in DOMAIN table : table[p].alive /\ IsUntunCloudflared(table[p].cmd)}

\* The pids remainingDetails holds: any row of `ps aux | grep cloudflared`.
CloudflaredPids(table) ==
  {p \in DOMAIN table : table[p].alive /\ Includes(table[p].cmd, <<"cloudflared">>)}

UntunLauncherPids(table) ==
  {p \in DOMAIN table : table[p].alive /\ IsUntunLauncher(table[p].cmd)}

\* The command lines of the processes that may start while a run sleeps.
GraceCmds == {LauncherCmd(Url3000)}

\* The tables a sleep can end in: any of the signalled processes may have
\* exited, and a process may have started on a pid that was free when the
\* run began.
AfterGrace(table, signalled, free) ==
  {Reap(table, gone) : gone \in SUBSET {p \in signalled : table[p].alive}}
    \cup {[Reap(table, gone) EXCEPT ![p] = Proc(c, 0)] :
            gone \in SUBSET {p \in signalled : table[p].alive},
            p \in {q \in free : ~table[q].alive}, c \in GraceCmds}

\* A launcher pass that never escalates: TERM, and nothing after the sleep.
LauncherPassWithoutKill(sigs, t2, free) ==
  {KillOutcome(sigs \o SignalAll(t2, UntunLauncherPids(t2), "TERM"), t3,
               UntunCloudflaredPids(t3) # {}) :
     t3 \in AfterGrace(t2, UntunLauncherPids(t2), free)}

\* The launcher pass (findPidsByPattern, TERM, sleep 0.3, a second
\* findPidsByPattern, KILL) and the final check, from table t2 on.
LauncherPass(sigs, t2, free) ==
  LET launchers == UntunLauncherPids(t2)
      term == SignalAll(t2, launchers, "TERM")
  IN IF launchers = {}
       THEN {KillOutcome(sigs, t2, UntunCloudflaredPids(t2) # {})}
     ELSE UNION {
       LET left == UntunLauncherPids(t3)
           kill == SignalAll(t3, left, "KILL")
       IN {KillOutcome(sigs \o term \o kill, t4, UntunCloudflaredPids(t4) # {}) :
             t4 \in {Reap(t3, gone) : gone \in SUBSET left}}
       : t3 \in AfterGrace(t2, launchers, free)}

\* A variant of the reaper that sends no signal.
KillNothing(table) == {KillOutcome(<<>>, table, FALSE)}

\* killTunnelProcesses(): the outcomes one run can have.
KillTunnelProcesses(table) ==
  LET free == {p \in DOMAIN table : ~table[p].alive}
      targets == UntunCloudflaredPids(table)
      term == SignalAll(table, targets, "TERM")
  IN IF targets = {} THEN LauncherPass(<<>>, table, free)
     ELSE UNION {
       LET remaining == targets \cap CloudflaredPids(t1)
           kill == SignalAll(t1, remaining, "KILL")
       IN UNION {LauncherPass(term \o kill, t2, free) :
                   t2 \in {Reap(t1, gone) : gone \in SUBSET remaining}}
       : t1 \in AfterGrace(table, targets, free)}

(* --------------------- list_tunnels: reconciliation -------------------- *)

\* One element of detectedTunnels.
Detected(name, url, publicUrl, pid) ==
  [name |-> name, url |-> url, publicUrl |-> publicUrl, pid |-> pid]

\* cloudflaredLines.forEach: a line with `--url <address>` is pushed.
RECURSIVE DetectCloudflared(_, _, _)
DetectCloudflared(det, pids, table) ==
  IF pids = <<>> THEN det
  ELSE LET cmd == table[Head(pids)].cmd
           localUrl == UrlAfter(cmd, <<"--url">>)
           next == IF localUrl = Null THEN det
                   ELSE Append(det, Detected(AutoName(Len(det) + 1), localUrl,
                                             PublicUrlIn(cmd), Head(pids)))
       IN DetectCloudflared(next, Tail(pids), table)

\* untunLines.forEach: a line with `untun tunnel <address>` is pushed unless
\* an element with that URL is already there.
RECURSIVE DetectUntun(_, _, _)
DetectUntun(det, pids, table) ==
  IF pids = <<>> THEN det
  ELSE LET cmd == table[Head(pids)].cmd
           localUrl == UrlAfter(cmd, <<"untun", " ", "tunnel">>)
           exists == \E i \in 1..Len(det) : det[i].url = localUrl
           next == IF localUrl = Null \/ exists THEN det
                   ELSE Append(det, Detected(AutoName(Len(det) + 1), localUrl,
                                             Null, Head(pids)))
       IN DetectUntun(next, Tail(pids), table)

\* detectedTunnels after both scans of the process table.
DetectedTunnels(table) ==
  DetectUntun(DetectCloudflared(<<>>, PidSeq(CloudflaredPids(table)), table),
              PidSeq(UntunLauncherPids(table)), table)

\* tunnelsArray.find((t) => t.url === url): the name of the first record with
\* that URL, or NoName.
FindByUrl(reg, url) ==
  LET hits == SelectSeq(NameOrder, LAMBDA n : n \in DOMAIN reg /\ reg[n].url = url)
  IN IF hits = <<>> THEN NoName ELSE Head(hits)

\* One turn of detectedTunnels.forEach: a tunnel whose URL no record has is
\* set under its generated name; else a missing publicUrl is filled in.
MergeDetected(reg, t, now) ==
  LET existing == FindByUrl(reg, t.url)
  IN IF existing = NoName
       THEN (t.name :> TunnelInfo(t.url, t.publicUrl, DateOf(now), t.pid,
                                  ThisHost, FALSE, TRUE, ThisHost)) @@ reg
     ELSE IF reg[existing].publicUrl = Null /\ t.publicUrl # Null
       THEN [reg EXCEPT ![existing].publicUrl = t.publicUrl]
     ELSE reg

RECURSIVE MergeAll(_, _, _)
MergeAll(reg, det, now) ==
  IF det = <<>> THEN reg
  ELSE MergeAll(MergeDetected(reg, Head(det), now), Tail(det), now)

\* Whether list_tunnels enters the block that merges and saves:
\* cloudflaredCount > 0 || untunCount > 0.
SeesProcesses(table) ==
  CloudflaredPids(table) # {} \/ UntunLauncherPids(table) # {}

(* ------------------------------- state --------------------------------- *)

VARIABLES
  activeTunnels,  \* the Map of the running server: name -> TunnelInfo
  file,           \* the persisted registry file
  procs,          \* the process table of this machine: pid -> row
  handles,        \* the child processes whose callbacks the server holds
  last,           \* what the last step did (its call, result and effects)
  steps,          \* steps the behaviour may still take
  up              \* whether the server process is running

vars == <<activeTunnels, file, procs, handles, last, steps, up>>

\* The closure state of one start_tunnel call: the name and pid it was made
\* for, tunnelUrl, urlResolved, whether the process has exited with its
\* exit event still to be delivered, and whether the object this call put in
\* the Map is still the entry under its name (own).
Handle(name, pid, tunnelUrl, urlResolved, exited) ==
  [name |-> name, pid |-> pid, tunnelUrl |-> tunnelUrl,
   urlResolved |-> urlResolved, exited |-> exited, own |-> TRUE]

\* The handles once the entries under `names` have been deleted from the Map.
Disown(hs, names) ==
  {IF h.name \in names THEN [h EXCEPT !.own = FALSE] ELSE h : h \in hs}

\* The handles once the processes in `gone` have exited.
MarkExited(hs, gone) ==
  {IF h.pid \in gone THEN [h EXCEPT !.exited = TRUE] ELSE h : h \in hs}

\* The live pids of `before` that are gone in `after`.
Gone(before, after) ==
  {p \in DOMAIN before : before[p].alive /\ ~after[p].alive}

\* The record of a step: the call and its arguments, the result returned
\* (with the count it reports), the signals sent, whether the process table
\* was queried, how the call of saveTunnels ended ("none" when it was not
\* called), the registry as loadTunnels left it (for the steps that load),
\* and whether the transcript of the killer holds a warning (for the steps
\* that stop).
StepRecord(op, name, url, result, count, signals, queried, save, loaded) ==
  [op |-> op, name |-> name, url |-> url, result |-> result, count |-> count,
   signals |-> signals, queried |-> queried, save |-> save, loaded |-> loaded,
   warned |-> FALSE]

\* The record of a step that ran a killer, with what its transcript says.
WithWarning(rec, warned) ==
  IF rec.op = "unseen" THEN rec ELSE [rec EXCEPT !.warned = warned]

\* A step that is not recorded.
Unseen == StepRecord("unseen", NoName, Null, "", 0, <<>>, FALSE, "none", EmptyRegistry)

\* `last` is a history variable. A behaviour records one step, the step it
\* ends with (steps' = 0); the steps before it leave `last` at Unseen. Every
\* step the server or the environment can take from a reachable state is
\* also taken as the recorded step of some behaviour.
Step(op, name, url, result, count, signals, queried, save, loaded) ==
  IF steps' = 0
    THEN StepRecord(op, name, url, result, count, signals, queried, save, loaded)
  ELSE Unseen

\* The record of a step that returns nothing and sends no signal.
Quiet(op, name, save, loaded) ==
  Step(op, name, Null, "", 0, <<>>, FALSE, save, loaded)

EnvStep == Quiet("env", NoName, "none", EmptyRegistry)

\* Files that no saveTunnels call wrote as they are: text that does not
\* parse (a file read while another process is writing it), an array whose
\* second element is null, and an array whose element has no `created`.
ForeignFiles ==
  LET web == StoredEntry("web", TunnelInfo(Url3000, Null, DateOf(1), NoPid, ThisHost,
                                           FALSE, FALSE, ThisHost), ThisHost)
  IN {UnparsableFile,
      [state |-> "ok", data |-> <<web, NullEntry>>, from |-> NoSave],
      [state |-> "ok", data |-> <<WithoutCreated(web)>>, from |-> NoSave]}

\* The file an earlier server on this machine saved with the second tunnel
\* a list_tunnels call had detected (the first has been stopped since).
DetectedFile ==
  SaveTunnels(AutoName(2) :> TunnelInfo(Url30001, Null, DateOf(1), 1, ThisHost,
                                        FALSE, TRUE, ThisHost),
              ThisHost, MissingFile, TRUE)

\* The files the server may find when it is started: none, or one that an
\* earlier server on this machine or a server on the other machine saved
\* with one tunnel in its registry.
InitialFiles ==
  {MissingFile}
    \cup {SaveTunnels("web" :> TunnelInfo(Url3000, Null, DateOf(1), pid, host,
                                          FALSE, FALSE, host),
                      host, MissingFile, TRUE) :
            pid \in {1, NoPid}, host \in {ThisHost, OtherHost}}

\* The process tables the server may find when it is started: no process,
\* or one process on pid 1.
NoProcs == [p \in Pids |-> NoProc]
OneProc(cmd) == [p \in Pids |-> IF p = 1 THEN Proc(cmd, 0) ELSE NoProc]
InitialProcs == {NoProcs, OneProc(OtherCmd), OneProc(BinaryCmd(Url30001))}

\* The server starts: the module body calls loadTunnels() on an empty Map.
\* It finds a saved file and any of the process tables, the file with the
\* detected tunnel while that tunnel's process is alive, or a foreign file
\* and no process.
Init ==
  /\ \/ file \in InitialFiles /\ procs \in InitialProcs
     \/ file = DetectedFile /\ procs = OneProc(BinaryCmd(Url30001))
     \/ file \in ForeignFiles /\ procs = NoProcs
  /\ activeTunnels = LoadTunnels(EmptyRegistry, file, ThisHost)
  /\ handles = {}
  /\ last = StepRecord("restart", NoName, Null, "", 0, <<>>, FALSE, "none",
                       LoadTunnels(EmptyRegistry, file, ThisHost))
  /\ steps = MaxSteps
  /\ up = TRUE

(* ---------------------------- start_tunnel ----------------------------- *)

\* A variant of the check that counts only the records of this machine.
AlreadyRunningLocalOnly(reg, name) == name \in DOMAIN reg /\ ~reg[name].isRemote

\* activeTunnels.has(name)
AlreadyRunning(reg, name) == name \in DOMAIN reg

\* The record start_tunnel stores for the process it launched.
NewTunnelInfo(url, now, pid) ==
  TunnelInfo(url, Null, DateOf(now), pid, ThisHost, FALSE, FALSE, ThisHost)

\* start_tunnel({url, name}). The launched shell gets a free pid.
\* When saveTunnels throws, the catch block of the handler returns the error
\* text and the callbacks of the launched process are never attached.
StartTunnel(name, url) ==
  /\ up
  /\ steps > 0
  /\ steps' \in {steps - 1, 0}
  /\ UNCHANGED up
  /\ IF AlreadyRunning(activeTunnels, name)
       THEN /\ last' = Step("start", name, url, "already_running", 0, <<>>, FALSE,
                            "none", EmptyRegistry)
            /\ UNCHANGED <<activeTunnels, file, procs, handles>>
     ELSE \E pid \in {p \in Pids : ~procs[p].alive}, now \in Times,
             writeOk \in BOOLEAN, logOk \in BOOLEAN :
            LET reg == (name :> NewTunnelInfo(url, now, pid)) @@ activeTunnels
                saved == SaveOutcome(reg, writeOk, logOk)
            IN /\ procs' = [procs EXCEPT ![pid] = Proc(LauncherCmd(url), 0)]
               /\ activeTunnels' = reg
               /\ file' = SaveTunnels(reg, ThisHost, file, writeOk)
               /\ handles' = IF SaveRaised(saved) THEN handles
                             ELSE handles \cup {Handle(name, pid, Null, FALSE, FALSE)}
               /\ last' = Step("start", name, url,
                               IF SaveRaised(saved) THEN "error" ELSE "started",
                               0, <<>>, FALSE, saved, EmptyRegistry)

(* ----------------------------- stop_tunnel ----------------------------- *)

\* A variant of the check that lets every record through.
IsRemoteRecordNever(info) == FALSE

\* tunnelInfo?.isRemote
IsRemoteRecord(info) == info.isRemote

\* The registry without the names in `gone` (activeTunnels.delete).
Without(reg, gone) == [n \in DOMAIN reg \ gone |-> reg[n]]

\* entries.filter(([_, info]) => !info.isRemote), as the set of its names.
LocalTunnels(reg) == {n \in DOMAIN reg : ~reg[n].isRemote}

\* activeTunnels.has(name) in stop_tunnel
HasTunnel(reg, name) == name \in DOMAIN reg

\* stop_tunnel({name}), the branch for a name.
StopNamed(name) ==
  IF ~HasTunnel(activeTunnels, name)
    THEN /\ last' = Step("stop", name, Null, "not_found", 0, <<>>, FALSE, "none",
                         EmptyRegistry)
         /\ UNCHANGED <<activeTunnels, file, procs, handles>>
  ELSE IF IsRemoteRecord(activeTunnels[name])
    THEN /\ last' = Step("stop", name, Null, "refused", 0, <<>>, FALSE, "none",
                         EmptyRegistry)
         /\ UNCHANGED <<activeTunnels, file, procs, handles>>
  ELSE LET info == activeTunnels[name]
           reg == Without(activeTunnels, {name})
           outs == IF info.url # Null
                     THEN CloseSpecificTunnel(info.url, info.pid, procs)
                   ELSE {KillOutcome(<<>>, procs, FALSE)}
       IN \E out \in outs, writeOk \in BOOLEAN, logOk \in BOOLEAN :
            LET saved == SaveOutcome(reg, writeOk, logOk)
            IN /\ procs' = out.procs
               /\ handles' = MarkExited(Disown(handles, {name}), Gone(procs, out.procs))
               /\ activeTunnels' = reg
               /\ file' = SaveTunnels(reg, ThisHost, file, writeOk)
               /\ last' = WithWarning(
                            Step("stop", name, Null,
                                 IF SaveRaised(saved) THEN "error" ELSE "stopped",
                                 0, out.signals, info.url # Null, saved, EmptyRegistry),
                            out.warned)

\* stop_tunnel({name}), the branch for all local tunnels: the Bulk Reaper
\* runs first; the local records are then deleted and the registry saved,
\* unless there is no local record.
StopAll(name) ==
  \E out \in KillTunnelProcesses(procs) :
    LET local == LocalTunnels(activeTunnels)
        localCount == Cardinality(local)
        reg == Without(activeTunnels, local)
    IN /\ procs' = out.procs
       /\ handles' = MarkExited(Disown(handles, local), Gone(procs, out.procs))
       /\ IF localCount = 0
            THEN /\ last' = WithWarning(Step("stop", name, Null, "no_local", 0,
                                             out.signals, TRUE, "none", EmptyRegistry),
                                        out.warned)
                 /\ UNCHANGED <<activeTunnels, file>>
          ELSE \E writeOk \in BOOLEAN, logOk \in BOOLEAN :
                 LET saved == SaveOutcome(reg, writeOk, logOk)
                 IN /\ activeTunnels' = reg
                    /\ file' = SaveTunnels(reg, ThisHost, file, writeOk)
                    /\ last' = WithWarning(
                                 IF SaveRaised(saved)
                                   THEN Step("stop", name, Null, "error", 0,
                                             out.signals, TRUE, saved, EmptyRegistry)
                                 ELSE Step("stop", name, Null, "stopped_all", localCount,
                                           out.signals, TRUE, saved, EmptyRegistry),
                                 out.warned)

\* A variant of the test that also sends a name the registry does not hold
\* to the branch for all tunnels.
HasKnownName(name) == name # NoName /\ name \in DOMAIN activeTunnels

\* `if (name)`: a name was passed.
HasName(name) == name # NoName

\* The stop_tunnel handler.
StopTunnel(name) ==
  /\ up
  /\ steps > 0
  /\ steps' \in {steps - 1, 0}
  /\ UNCHANGED up
  /\ IF HasName(name) THEN StopNamed(name) ELSE StopAll(name)

(* ----------------------------- list_tunnels ---------------------------- *)

\* The list_tunnels handler: loadTunnels(), then the scan of the process
\* table, the merge of what it found and saveTunnels(). The `ps -p` calls of
\* the status report change nothing.
\* loadTunnels() is called outside every try block: when it throws the call
\* fails before the scan. When saveTunnels throws, the catch block of the
\* handler reports the error in the listing.
ListTunnels ==
  /\ up
  /\ steps > 0
  /\ steps' \in {steps - 1, 0}
  /\ UNCHANGED up
  /\ \E loadLogOk \in BOOLEAN :
       LET loaded == LoadTunnels(activeTunnels, file, ThisHost)
       IN IF LoadOutcome(file, loadLogOk) = "raised"
            THEN /\ activeTunnels' = loaded
                 /\ last' = Step("list", NoName, Null, "load_raised", 0, <<>>, FALSE,
                                 "none", loaded)
                 /\ UNCHANGED file
          ELSE IF SeesProcesses(procs)
            THEN \E now \in Times, writeOk \in BOOLEAN, logOk \in BOOLEAN :
                   LET reg == MergeAll(loaded, DetectedTunnels(procs), now)
                       saved == SaveOutcome(reg, writeOk, logOk)
                   IN /\ activeTunnels' = reg
                      /\ file' = SaveTunnels(reg, ThisHost, file, writeOk)
                      /\ last' = Step("list", NoName, Null,
                                      IF SaveRaised(saved) THEN "error" ELSE "listed",
                                      0, <<>>, TRUE, saved, loaded)
          ELSE /\ activeTunnels' = loaded
               /\ last' = Step("list", NoName, Null, "listed", 0, <<>>, TRUE, "none",
                               loaded)
               /\ UNCHANGED file
  /\ UNCHANGED <<procs, handles>>

(* ------------------------ the server is restarted ---------------------- *)

\* A new server process: an empty Map, loadTunnels() from the module body,
\* and none of the callbacks of the old process. When loadTunnels throws, the
\* module body throws and the new process ends.
Restart ==
  /\ steps > 0
  /\ steps' \in {steps - 1, 0}
  /\ handles' = {}
  /\ \E logOk \in BOOLEAN :
       LET loaded == LoadTunnels(EmptyRegistry, file, ThisHost)
       IN IF LoadOutcome(file, logOk) = "raised"
            THEN /\ up' = FALSE
                 /\ activeTunnels' = EmptyRegistry
                 /\ last' = Step("restart", NoName, Null, "load_raised", 0, <<>>,
                                 FALSE, "none", loaded)
          ELSE /\ up' = TRUE
               /\ activeTunnels' = loaded
               /\ last' = Quiet("restart", NoName, "none", loaded)
  /\ UNCHANGED <<file, procs>>

(* ------------------- callbacks of a launched process ------------------- *)

\* tunnelProcess.stdout.on("data") for a chunk that holds a tunnel URL, while
\* tunnelUrl is still unset.
\* What saveTunnels throws inside an event callback nothing catches: the
\* server process ends with an uncaught exception.
TunnelStdout(h) ==
  /\ up
  /\ steps > 0
  /\ steps' \in {steps - 1, 0}
  /\ h.tunnelUrl = Null
  /\ IF h.name \in DOMAIN activeTunnels
       THEN \E writeOk \in BOOLEAN, logOk \in BOOLEAN :
              LET reg == [activeTunnels EXCEPT ![h.name].publicUrl = PublicUrlOf(h.pid)]
                  saved == SaveOutcome(reg, writeOk, logOk)
              IN /\ file' = SaveTunnels(reg, ThisHost, file, writeOk)
                 /\ IF SaveRaised(saved)
                      THEN /\ up' = FALSE
                           /\ activeTunnels' = EmptyRegistry
                           /\ handles' = {}
                           /\ last' = Step("stdout", h.name, Null, "crashed", 0, <<>>,
                                           FALSE, saved, EmptyRegistry)
                    ELSE /\ up' = TRUE
                         /\ activeTunnels' = reg
                         /\ handles' = (handles \ {h})
                              \cup {[h EXCEPT !.tunnelUrl = PublicUrlOf(h.pid),
                                              !.urlResolved = TRUE]}
                         /\ last' = Quiet("stdout", h.name, saved, EmptyRegistry)
     ELSE /\ handles' = (handles \ {h})
               \cup {[h EXCEPT !.tunnelUrl = PublicUrlOf(h.pid)]}
          /\ last' = Quiet("stdout", h.name, "none", EmptyRegistry)
          /\ UNCHANGED <<activeTunnels, file, up>>
  /\ UNCHANGED procs

\* `if (!urlResolved)` in the exit callback
ExitRemoves(h) == ~h.urlResolved

\* tunnelProcess.on("exit"): without a resolved URL the name is deleted and
\* the registry saved.
TunnelExit(h) ==
  /\ up
  /\ steps > 0
  /\ steps' \in {steps - 1, 0}
  /\ h.exited
  /\ IF ExitRemoves(h)
       THEN \E writeOk \in BOOLEAN, logOk \in BOOLEAN :
              LET reg == Without(activeTunnels, {h.name})
                  saved == SaveOutcome(reg, writeOk, logOk)
              IN /\ file' = SaveTunnels(reg, ThisHost, file, writeOk)
                 /\ IF SaveRaised(saved)
                      THEN /\ up' = FALSE
                           /\ activeTunnels' = EmptyRegistry
                           /\ handles' = {}
                           /\ last' = Step("exit", h.name, Null, "crashed", 0, <<>>,
                                           FALSE, saved, EmptyRegistry)
                    ELSE /\ up' = TRUE
                         /\ activeTunnels' = reg
                         /\ handles' = Disown(handles \ {h}, {h.name})
                         /\ last' = Quiet("exit", h.name, saved, EmptyRegistry)
     ELSE /\ handles' = handles \ {h}
          /\ last' = Quiet("exit", h.name, "none", EmptyRegistry)
          /\ UNCHANGED <<activeTunnels, file, up>>
  /\ UNCHANGED procs

(* ---------------------------- environment ------------------------------ *)

\* Some process starts on a free pid of this machine.
ProcessStarts(pid, cmd, ppid) ==
  /\ steps > 0
  /\ steps' \in {steps - 1, 0}
  /\ ~procs[pid].alive
  /\ ppid = 0 \/ IsAlive(procs, ppid)
  /\ procs' = [procs EXCEPT ![pid] = Proc(cmd, ppid)]
  /\ last' = EnvStep
  /\ UNCHANGED <<activeTunnels, file, handles, up>>

\* A process of this machine exits.
ProcessExits(pid) ==
  /\ steps > 0
  /\ steps' \in {steps - 1, 0}
  /\ procs[pid].alive
  /\ procs' = Reap(procs, {pid})
  /\ handles' = MarkExited(handles, {pid})
  /\ last' = EnvStep
  /\ UNCHANGED <<activeTunnels, file, up>>

\* A server on the other machine accepts start_tunnel(name, url) and saves its
\* registry. That registry was loaded when that server started: from the file
\* as it is now, or (stale) before the file had any record.
OtherHostStarts(name, url, pid, stale) ==
  /\ steps > 0
  /\ steps' \in {steps - 1, 0}
  /\ LET theirs == IF stale THEN EmptyRegistry
                   ELSE LoadTunnels(EmptyRegistry, file, OtherHost)
     IN /\ ~AlreadyRunning(theirs, name)
        /\ file' = SaveTunnels((name :> TunnelInfo(url, Null, DateOf(1), pid, OtherHost,
                                                   FALSE, FALSE, OtherHost)) @@ theirs,
                               OtherHost, file, TRUE)
  /\ last' = EnvStep
  /\ UNCHANGED <<activeTunnels, procs, handles, up>>

(* --------------------------- specification ----------------------------- *)

Next ==
  \/ \E name \in Names, url \in Urls : StartTunnel(name, url)
  \/ \E name \in Names \cup DOMAIN activeTunnels \cup {NoName} : StopTunnel(name)
  \/ ListTunnels
  \/ Restart
  \/ \E h \in handles : TunnelStdout(h)
  \/ \E h \in handles : TunnelExit(h)
  \/ \E pid \in Pids, cmd \in Cmds, ppid \in {0} \cup Pids : ProcessStarts(pid, cmd, ppid)
  \/ \E pid \in Pids : ProcessExits(pid)
  \/ \E name \in Names, stale \in BOOLEAN : OtherHostStarts(name, Url3000, 1, stale)

Spec == Init /\ [][Next]_vars

\* The server with one tunnel name and the callbacks of the processes
\* launched for it, followed further than Spec does: it starts with no file,
\* an empty registry and no tunnel process.
InitCallbacks ==
  /\ file = MissingFile
  /\ activeTunnels = EmptyRegistry
  /\ procs = NoProcs
  /\ handles = {}
  /\ last = StepRecord("restart", NoName, Null, "", 0, <<>>, FALSE, "none",
                       EmptyRegistry)
  /\ steps = MaxCallbackSteps
  /\ up = TRUE

NextCallbacks ==
  \/ StartTunnel("web", Url3000)
  \/ StopTunnel("web")
  \/ \E h \in handles : TunnelStdout(h)
  \/ \E h \in handles : TunnelExit(h)
  \/ \E pid \in Pids : ProcessExits(pid)

SpecCallbacks == InitCallbacks /\ [][NextCallbacks]_vars

(* ============================== claims ================================= *)

\* The entries of the file under a given name.
FileEntries(f, name) == {f.data[i] : i \in {j \in 1..Len(f.data) : f.data[j].name = name}}

(* ------------------------------- C1 ------------------------------------ *)

\* C1: start_tunnel with a name that is already a key of the registry
\* (whatever the record's host, origin or process liveness) is rejected with
\* the 'already running' result: no process is launched, no record is added
\* or changed, and the file is not written.
C1_StartExistingRejected ==
  [][(last'.op = "start" /\ last'.name \in DOMAIN activeTunnels)
       => /\ last'.result = "already_running"
          /\ last'.save = "none"
          /\ UNCHANGED <<activeTunnels, file, procs, handles>>]_vars

\* A start was rejected for a name held by a record of the other machine.
C1_Witness ==
  /\ last.op = "start"
  /\ last.result = "already_running"
  /\ last.name \in DOMAIN activeTunnels
  /\ activeTunnels[last.name].isRemote

(* ------------------------------- C2 ------------------------------------ *)

\* What both forms of C2 say of the registry and the launched process: the
\* call is accepted, the other records are kept as they were, and the one
\* new record holds the given local address, no public address, the pid of
\* the process launched for that address, and the current hostname.
C2_RecordCreated ==
  /\ last'.result = "started"
  /\ DOMAIN activeTunnels' = DOMAIN activeTunnels \cup {last'.name}
  /\ \A n \in DOMAIN activeTunnels : activeTunnels'[n] = activeTunnels[n]
  /\ LET r == activeTunnels'[last'.name]
     IN /\ r.url = last'.url
        /\ r.publicUrl = Null
        /\ r.hostId = ThisHost
        /\ r.pid \in Pids
        /\ ~procs[r.pid].alive
        /\ procs'[r.pid] = Proc(LauncherCmd(last'.url), 0)

\* The file holds the new record as saveTunnels writes it.
C2_FileHoldsRecord ==
  /\ file'.state = "ok"
  /\ FileEntries(file', last'.name)
       = {StoredEntry(last'.name, activeTunnels'[last'.name], ThisHost)}

\* C2: start_tunnel with a name absent from the registry is accepted; on
\* return the registry holds exactly one new record under that name with the
\* given local address, publicAddress = null, the launched process's id and
\* the current hostname, and the persisted file already contains that
\* record. The file is required to contain it only when the write succeeded:
\* a write that fails is to be swallowed by saveTunnels and leaves the file
\* as it was.
C2_StartAbsentAccepted ==
  [][(last'.op = "start" /\ last'.name \notin DOMAIN activeTunnels)
       => /\ C2_RecordCreated
          /\ last'.save \in {"ok", "failed"}
          /\ last'.save = "ok" => C2_FileHoldsRecord
          /\ last'.save = "failed" => file' = file]_vars

(* ------------------------------- C3 ------------------------------------ *)

C4_ForeignNeverStopped ==
  [][\A n \in DOMAIN activeTunnels :
       (activeTunnels[n].origin = OtherHost /\ last'.op = "stop")
         => /\ n \in DOMAIN activeTunnels'
            /\ last'.name = n => (last'.result = "refused" /\ last'.signals = <<>>)]_vars

(* ------------------------------- C5 ------------------------------------ *)

\* The names of the records that are not remote.
C5_Local == {n \in DOMAIN activeTunnels : ~activeTunnels[n].isRemote}

\* stop_tunnel without a name removes exactly the records that are not
\* remote, leaves every remote record unchanged, and reports the number of
\* non-remote records present before the call.
C5_RemovesLocal ==
  /\ DOMAIN activeTunnels' = DOMAIN activeTunnels \ C5_Local
  /\ \A n \in DOMAIN activeTunnels' : activeTunnels'[n] = activeTunnels[n]
  /\ last'.count = Cardinality(C5_Local)

\* The file was written from the resulting registry.
C5_Saved ==
  /\ last'.save = "ok"
  /\ file'.state = "ok"
  /\ file'.from = [reg |-> activeTunnels', host |-> ThisHost]

\* C5: stop_tunnel with no name removes from the registry exactly the
\* records that are not remote, leaves every remote record unchanged,
\* reports as the stopped count the number of non-remote records present
\* before the call, and saves the resulting registry. The save is required
\* only when a non-remote record was present, and the file is required to
\* hold the resulting registry only when the write succeeded.
C5_StopAllRemovesLocal ==
  [][(last'.op = "stop" /\ last'.name = NoName)
       => /\ C5_RemovesLocal
          /\ C5_Local # {}
               => /\ last'.result = "stopped_all"
                  /\ last'.save \in {"ok", "failed"}
                  /\ last'.save = "ok" => C5_Saved
                  /\ last'.save = "failed" => file' = file
          /\ C5_Local = {}
               => /\ last'.result = "no_local"
                  /\ last'.save = "none"
                  /\ file' = file]_vars

(* ------------------------------- C6 ------------------------------------ *)

C7_MatchesTunnelSignature(cmd) ==
  Includes(cmd, <<"cloudflared">>) \/ Includes(cmd, <<"untun", " ", "tunnel">>)

\* C7: closeSpecificTunnel (run by stop_tunnel for a name) never sends a
\* signal to a process whose command line does not match the tunnel
\* signature: not to the recorded parent pid, not to a child, not through
\* the address fallback.
C7_OnlyTunnelProcessesSignalled ==
  (last.op = "stop" /\ last.name # NoName)
    => \A i \in 1..Len(last.signals) : C7_MatchesTunnelSignature(last.signals[i].cmd)

(* ------------------------------- C8 ------------------------------------ *)

\* C8: during killTunnelProcesses (run by stop_tunnel without a name) no
\* process whose command line contains the authentication-token marker is
\* sent a signal, in any phase.
C8_NoTokenProcessSignalled ==
  (last.op = "stop" /\ last.name = NoName)
    => \A i \in 1..Len(last.signals) : ~Includes(last.signals[i].cmd, <<"--token">>)

(* ------------------------------- C9 ------------------------------------ *)

\* The registry `loaded`, read on host hl from the file, holds every record
\* of the registry the file was saved from, with the same local address,
\* public address, creation time and pid, and marks it remote exactly when
\* hl is not the host that saved.
C9_Reproduces(loaded, hl) ==
  \A n \in DOMAIN file.from.reg :
    /\ n \in DOMAIN loaded
    /\ loaded[n].url = file.from.reg[n].url
    /\ loaded[n].publicUrl = file.from.reg[n].publicUrl
    /\ loaded[n].created = file.from.reg[n].created
    /\ loaded[n].pid = file.from.reg[n].pid
    /\ loaded[n].isRemote = (hl # file.from.host)

\* C9: saving a registry R and then loading the file into an empty registry
\* yields a record for every name of R with the same localAddress,
\* publicAddress, createdAt and processId, marked remote exactly when the
\* loading machine's hostname differs from the saving machine's. Checked of
\* every file a save has written: for a load on either machine, and for the
\* registry of a server that has just been restarted on the file.
C9_RoundTrip ==
  (file.state = "ok" /\ file.from # NoSave)
    => /\ \A hl \in {ThisHost, OtherHost} :
            C9_Reproduces(LoadTunnels(EmptyRegistry, file, hl), hl)
       /\ (last.op = "restart" /\ up) => C9_Reproduces(activeTunnels, ThisHost)

\* A restarted server has loaded a file that this machine saved with a
\* record that has a public address.
C9_Witness ==
  /\ last.op = "restart"
  /\ up
  /\ steps < MaxSteps
  /\ file.state = "ok"
  /\ file.from.host = ThisHost
  /\ \E n \in DOMAIN activeTunnels :
       activeTunnels[n].publicUrl # Null /\ ~activeTunnels[n].isRemote

(* ------------------------------- C10 ----------------------------------- *)

\* C10: after a load of a well-formed file the registry holds exactly the
\* names in the file with the file's field values. Stated of the registry as
\* loadTunnels leaves it in list_tunnels and at a restart.
C10_LoadReplaces ==
  [][(last'.op \in {"list", "restart"} /\ file.state = "ok")
       => /\ DOMAIN last'.loaded = {file.data[i].name : i \in 1..Len(file.data)}
          /\ \A i \in 1..Len(file.data) :
               LET e == file.data[i]
                   r == last'.loaded[e.name]
               IN /\ r.url = e.url
                  /\ r.publicUrl = e.publicUrl
                  /\ r.created = ParseDate(e.created)
                  /\ r.pid = e.pid]_vars

(* ------------------------------- C11 ----------------------------------- *)

\* The registry a loadTunnels call of the recorded step started from: the
\* Map of the running server in list_tunnels, an empty Map at a restart.
C11_RegistryBeforeLoad == IF last'.op = "list" THEN activeTunnels ELSE EmptyRegistry

\* C11: when the file is missing, unreadable, truncated or does not parse,
\* loadTunnels does not raise and leaves the registry exactly as it was
\* before the call. Stated of the loadTunnels calls of list_tunnels and of a
\* restart.
C11_LoadFailureSwallowed ==
  [][(last'.op \in {"list", "restart"} /\ file.state \in {"missing", "bad"})
       => /\ last'.result # "load_raised"
          /\ last'.loaded = C11_RegistryBeforeLoad]_vars

(* ------------------------------- C12 ----------------------------------- *)

\* An element of the file that is not a valid record: not an object, or an
\* object without a creation time.
C12_Malformed(e) == e = NullEntry \/ e.created.fmt # "iso"

\* C12: when any element of the file lacks a required field or is not a
\* valid record, the entire load fails: no entry of the file is added to the
\* registry, the well-formed entries before the malformed one included.
\* Stated of the loadTunnels calls of list_tunnels and of a restart.
C12_MalformedFileLoadsNothing ==
  [][(/\ last'.op \in {"list", "restart"}
      /\ file.state = "ok"
      /\ \E i \in 1..Len(file.data) : C12_Malformed(file.data[i]))
       => last'.loaded = C11_RegistryBeforeLoad]_vars

(* ------------------------------- C13 ----------------------------------- *)

\* The result a handler or callback returns when nothing goes wrong.
C13_NormalResult ==
  CASE last'.op = "start" -> "started"
    [] last'.op = "stop" -> IF last'.name = NoName THEN "stopped_all" ELSE "stopped"
    [] last'.op = "list" -> "listed"
    [] OTHER -> ""

\* The registry after the step holds what the handler or callback did to it.
C13_MutationKept ==
  CASE last'.op = "start" ->
         /\ last'.name \in DOMAIN activeTunnels'
         /\ activeTunnels'[last'.name].url = last'.url
    [] last'.op = "stop" /\ last'.name # NoName ->
         last'.name \notin DOMAIN activeTunnels'
    [] last'.op = "stop" /\ last'.name = NoName ->
         \A n \in DOMAIN activeTunnels' : activeTunnels'[n].isRemote
    [] last'.op = "stdout" ->
         /\ last'.name \in DOMAIN activeTunnels'
         /\ activeTunnels'[last'.name].publicUrl # Null
    [] last'.op = "exit" -> last'.name \notin DOMAIN activeTunnels'
    [] OTHER -> TRUE

\* C13: a call of saveTunnels that cannot write the file never raises to its
\* caller: the handler or callback that called it continues and returns its
\* normal result, and the registry keeps the mutation that was being saved.
C13_FailedSaveSwallowed ==
  [][last'.save \in {"failed", "raised"}
       => /\ last'.save = "failed"
          /\ up'
          /\ last'.result = C13_NormalResult
          /\ C13_MutationKept]_vars

(* ------------------------------- C14 ----------------------------------- *)

\* The local addresses of the live tunnel-binary processes whose command
\* line shows one.
C14_LiveAddresses ==
  {UrlAfter(procs[p].cmd, <<"--url">>) : p \in CloudflaredPids(procs)} \ {Null}

\* C14: after list_tunnels completes, every live tunnel-binary process whose
\* local address could be extracted has a record in the registry with that
\* local address; an address that no record had before the pass is now held
\* by a record that is marked auto-detected and carries the current
\* hostname. Stated of the list_tunnels calls that return the listing.
C14_LiveProcessesRecorded ==
  [][(last'.op = "list" /\ last'.result = "listed")
       => \A u \in C14_LiveAddresses :
            /\ \E n \in DOMAIN activeTunnels' : activeTunnels'[n].url = u
            /\ FindByUrl(last'.loaded, u) = NoName
                 => \E n \in DOMAIN activeTunnels' :
                      /\ activeTunnels'[n].url = u
                      /\ activeTunnels'[n].isDetected
                      /\ activeTunnels'[n].hostId = ThisHost]_vars

(* ------------------------------- C15 ----------------------------------- *)

\* C15: the reconciliation pass of list_tunnels never deletes or replaces a
\* record: every name that was in the registry before the call is still
\* there after it with the same local address, creation time and pid,
\* whatever names the pass generates for what it detected. Stated of the
\* list_tunnels calls that return the listing.
C15_ListKeepsRecords ==
  [][(last'.op = "list" /\ last'.result = "listed")
       => \A n \in DOMAIN activeTunnels :
            /\ n \in DOMAIN activeTunnels'
            /\ activeTunnels'[n].url = activeTunnels[n].url
            /\ activeTunnels'[n].created = activeTunnels[n].created
            /\ activeTunnels'[n].pid = activeTunnels[n].pid]_vars

(* ------------------------------- C16 ----------------------------------- *)

\* C16: every execution of list_tunnels ends with a call of saveTunnels,
\* including the executions whose scan found no live tunnel process. Stated
\* of the list_tunnels calls that return the listing.
C16_ListAlwaysSaves ==
  [][(last'.op = "list" /\ last'.result = "listed") => last'.save # "none"]_vars

(* ------------------------------- C17 ----------------------------------- *)

\* C17: for the record stored under a name since its creation, the public
\* address changes at most once, from null to a value: once it has a value
\* no later tunnel output, backfill or load changes it. Stated of every step
\* of a running server that keeps the record (the same local address,
\* creation time and pid under the same name).
C17_PublicUrlSetOnce ==
  [][\A n \in DOMAIN activeTunnels \cap DOMAIN activeTunnels' :
       (/\ up'
        /\ activeTunnels'[n].url = activeTunnels[n].url
        /\ activeTunnels'[n].created = activeTunnels[n].created
        /\ activeTunnels'[n].pid = activeTunnels[n].pid
        /\ activeTunnels[n].publicUrl # Null)
         => activeTunnels'[n].publicUrl = activeTunnels[n].publicUrl]_vars

(* ------------------------------- C18 ----------------------------------- *)

\* C18: when the process that was launched for a record whose public address
\* is null emits a line with a recognizable public URL, the record's public
\* address becomes that URL and the registry is saved, so that the file
\* holds the URL. The file is required to hold it only when the write
\* succeeded. The process that emitted is the one whose closure the step
\* retires from `handles`.
C18_UrlStoredAndSaved ==
  [][\A h \in handles \ handles' :
       (/\ last'.op = "stdout"
        /\ h.name = last'.name
        /\ h.tunnelUrl = Null
        /\ h.name \in DOMAIN activeTunnels
        /\ activeTunnels[h.name].pid = h.pid
        /\ activeTunnels[h.name].publicUrl = Null)
         => /\ up'
            /\ h.name \in DOMAIN activeTunnels'
            /\ activeTunnels'[h.name].publicUrl = PublicUrlOf(h.pid)
            /\ last'.save \in {"ok", "failed"}
            /\ last'.save = "ok"
                 => FileEntries(file', h.name)
                      = {StoredEntry(h.name, activeTunnels'[h.name], ThisHost)}]_vars

(* ------------------------------- C19 ----------------------------------- *)

\* C19: the servers that share the file take no lock, and the last save
\* wins: a step that rewrites the file leaves in it the serialization of the
\* registry of the server that saved, one element for each of its records
\* and nothing else, so that a record of the file which that server had not
\* loaded is lost. For this machine's server the registry is the one it
\* holds after the step.
C19_LastSaveWins ==
  [][file' # file
       => /\ file'.state = "ok"
          /\ LET reg == file'.from.reg
                 host == file'.from.host
             IN /\ Len(file'.data) = Cardinality(DOMAIN reg)
                /\ \A i \in 1..Len(file'.data) :
                     /\ file'.data[i].name \in DOMAIN reg
                     /\ file'.data[i]
                          = StoredEntry(file'.data[i].name, reg[file'.data[i].name], host)
                /\ \A n \in DOMAIN reg : FileEntries(file', n) # {}
                /\ (host = ThisHost /\ up') => reg = activeTunnels']_vars

\* A lost update: this server holds a local record that it loaded from the
\* file when it started (the creation time is that of the records of the
\* initial files), and the file, rewritten since by the server on the other
\* machine from a registry without it, no longer has an element of that
\* name.
C19_Witness ==
  /\ file.state = "ok"
  /\ file.from.host = OtherHost
  /\ \E n \in DOMAIN activeTunnels :
       /\ ~activeTunnels[n].isRemote
       /\ activeTunnels[n].origin = ThisHost
       /\ activeTunnels[n].created = DateOf(1)
       /\ FileEntries(file, n) = {}

(* ------------------------------- C20 ----------------------------------- *)

\* The pids the recorded step sent a signal to.
C20_Signalled == {last'.signals[i].pid : i \in 1..Len(last'.signals)}

C21_OthersProcesses(name) ==
  LET others == {activeTunnels[n].pid : n \in DOMAIN activeTunnels \ {name}} \ {NoPid}
  IN others \cup UNION {ChildrenOf(procs, p) : p \in others}

C21_StopTouchesOnlyOwnProcesses ==
  [][(/\ last'.op = "stop"
      /\ last'.result = "stopped"
      /\ last'.name \in DOMAIN activeTunnels
      /\ activeTunnels[last'.name].pid # NoPid)
     => LET pid == activeTunnels[last'.name].pid
            own == {pid} \cup {c \in ChildrenOf(procs, pid) :
                                 IsCloudflaredChild(procs[c].cmd)}
        IN \A i \in DOMAIN last'.signals :
             /\ last'.signals[i].pid \in own
             /\ last'.signals[i].pid \notin C21_OthersProcesses(last'.name)]_vars

\* ---------------------------------------------------------------------------
\* C22. Stopping a tunnel by name whose recorded process, the launcher, is
\* alive and has a live direct child running the tunnel binary sends that
\* child the graceful signal before the call returns, whether or not the
\* parent has exited by the time its children are enumerated.
C22_LiveChildren(name) ==
  LET pid == activeTunnels[name].pid
  IN IF pid # NoPid /\ IsAlive(procs, pid) /\ procs[pid].cmd = LauncherCmd(Url3000)
       THEN {c \in ChildrenOf(procs, pid) : IsCloudflaredChild(procs[c].cmd)}
     ELSE {}

C22_ChildAlwaysSignalled ==
  [][(/\ last'.op = "stop"
      /\ last'.result = "stopped"
      /\ last'.name \in DOMAIN activeTunnels)
     => \A c \in C22_LiveChildren(last'.name) :
          \E i \in DOMAIN last'.signals :
            last'.signals[i].pid = c /\ last'.signals[i].sig = "TERM"]_vars

\* ---------------------------------------------------------------------------
\* C23. closeSpecificTunnel selects processes by the address only when the
\* record has no process id, and then its transcript holds the warning; with
\* a process id, alive or not, the transcript has no warning and only the
\* process with that id and its children are signalled, whatever other
\* process names the address.
C23_AddressMatchOnlyWithoutPid ==
  [][(/\ last'.op = "stop"
      /\ last'.result \in {"stopped", "error"}
      /\ last'.name \in DOMAIN activeTunnels
      /\ last'.queried)
     => LET info == activeTunnels[last'.name]
            sent == {last'.signals[i].pid : i \in DOMAIN last'.signals}
        IN IF info.pid = NoPid
             THEN /\ last'.warned
                  /\ \A p \in sent : MatchesUrl(procs[p].cmd, info.url)
           ELSE /\ ~last'.warned
                /\ sent \subseteq {info.pid} \cup ChildrenOf(procs, info.pid)]_vars

\* A stop of a record without a process id that signalled a process found by
\* the address and warned about it.
C23_Witness ==
  /\ last.op = "stop"
  /\ last.result = "stopped"
  /\ last.name \in Names
  /\ last.warned
  /\ last.signals # <<>>

\* ---------------------------------------------------------------------------
\* C24. One run of killTunnelProcesses is a single escalation: no pid is sent
\* the graceful signal twice or the forceful signal twice, and every pid that
\* was sent the graceful signal and whose process outlives the run was also
\* sent the forceful one.
C24_Count(signals, pid, sig) ==
  Cardinality({i \in DOMAIN signals : signals[i].pid = pid /\ signals[i].sig = sig})

C24_SingleEscalation ==
  [][(last'.op = "stop" /\ last'.name = NoName)
     => \A p \in Pids :
          /\ C24_Count(last'.signals, p, "TERM") <= 1
          /\ C24_Count(last'.signals, p, "KILL") <= 1
          /\ (C24_Count(last'.signals, p, "TERM") = 1 /\ procs'[p].alive)
               => C24_Count(last'.signals, p, "KILL") = 1]_vars

\* A run that escalated: the same pid was sent the graceful and then the
\* forceful signal.
C24_Witness ==
  /\ last.op = "stop"
  /\ last.name = NoName
  /\ \E p \in Pids : /\ C24_Count(last.signals, p, "TERM") = 1
                     /\ C24_Count(last.signals, p, "KILL") = 1

\* ---------------------------------------------------------------------------
\* C25. The transcript of killTunnelProcesses ends with a warning exactly
\* when a process the run signalled (a tunnel binary or a launcher, without a
\* token in its command line) is still alive when the run returns; the stop
\* returns its result either way.
C25_Survivors(signals, table) ==
  {p \in {signals[i].pid : i \in DOMAIN signals} :
     /\ table[p].alive
     /\ ~Includes(table[p].cmd, <<"--token">>)}

C25_WarningIffSurvivor ==
  [][(/\ last'.op = "stop"
      /\ last'.name = NoName
      /\ last'.result \in {"no_local", "stopped_all"})
     => (last'.warned <=> C25_Survivors(last'.signals, procs') # {})]_vars

\* ---------------------------------------------------------------------------
\* C29. In one run of killTunnelProcesses every pid that is sent the forceful
\* signal was sent the graceful signal earlier in the same run, also when a
\* matching process starts while the run sleeps.
C29_KillOnlyAfterTerm ==
  [][(last'.op = "stop" /\ last'.name = NoName)
     => \A i \in DOMAIN last'.signals :
          last'.signals[i].sig = "KILL"
            => \E j \in 1..(i - 1) :
                 /\ last'.signals[j].pid = last'.signals[i].pid
                 /\ last'.signals[j].sig = "TERM"]_vars

\* ---------------------------------------------------------------------------
\* C28. A stdout or exit callback that runs for a process other than the one
\* the record under its name was created for (the name was stopped and
\* started again) leaves that record as it is: it neither sets its
\* publicUrl nor deletes it.
C28_CallbackKeepsToOwnRecord ==
  [][(/\ last'.op \in {"stdout", "exit"}
      /\ last'.save \in {"none", "ok", "failed"})
     => \A h \in handles \ handles' :
          (/\ h.name = last'.name
           /\ h.name \in DOMAIN activeTunnels
           /\ activeTunnels[h.name].pid # h.pid)
          => /\ h.name \in DOMAIN activeTunnels'
             /\ activeTunnels'[h.name] = activeTunnels[h.name]]_vars

\* ---------------------------------------------------------------------------
\* C26. When the process a record was created for exits (its exit callback
\* runs while that record is still the entry under its name), the record is
\* removed and the registry saved, the server going on, if the process never
\* reported a public address; if it reported one, the record stays as it is
\* and nothing is saved.
C26_Fired(h) ==
  /\ h.exited
  /\ h \notin handles'
  /\ [h EXCEPT !.own = FALSE] \notin handles'

C26_OwnRecord(h) ==
  /\ h.own
  /\ h.name \in DOMAIN activeTunnels

C26_RemovedIffNeverReported ==
  [][(last'.op = "exit")
     => \A h \in handles :
          (h.name = last'.name /\ C26_Fired(h) /\ C26_OwnRecord(h))
          => IF h.tunnelUrl = Null
               THEN /\ h.name \notin DOMAIN activeTunnels'
                    /\ last'.save \in {"ok", "failed"}
                    /\ up'
             ELSE /\ h.name \in DOMAIN activeTunnels'
                  /\ activeTunnels'[h.name] = activeTunnels[h.name]
                  /\ last'.save = "none"
                  /\ file' = file]_vars

\* ---------------------------------------------------------------------------
\* C27. With no other writer of the file and no failing save or load, the
\* file and the registry agree whenever a handler or a callback has finished:
\* the file holds exactly the names of the registry, each once, with the
\* record's url, publicUrl, created and pid. It is so when the server has
\* started on a file written by saveTunnels (or on none), and every step that
\* starts from agreement and meets no failure ends in agreement.
C27_InSync(reg, f) ==
  /\ f.state \in {"ok", "missing"}
  /\ Len(f.data) = Cardinality(DOMAIN reg)
  /\ \A i \in DOMAIN f.data :
       LET e == f.data[i]
       IN /\ e.name \in DOMAIN reg
          /\ e.url = reg[e.name].url
          /\ e.publicUrl = reg[e.name].publicUrl
          /\ e.pid = reg[e.name].pid
          /\ reg[e.name].created.valid
          /\ e.created = [fmt |-> "iso", ms |-> reg[e.name].created.ms]
  /\ \A n \in DOMAIN reg : \E i \in DOMAIN f.data : f.data[i].name = n

C27_NoFailure ==
  /\ up'
  /\ last'.op # "unseen"
  /\ last'.save \in {"none", "ok"}
  /\ last'.result \notin {"error", "load_raised", "crashed"}
  /\ last'.op = "env" => file' = file

C27_FileMirrorsRegistry ==
  /\ (steps = MaxSteps /\ (file = MissingFile \/ file.from # NoSave))
       => C27_InSync(activeTunnels, file)
  /\ [][(up /\ C27_InSync(activeTunnels, file) /\ C27_NoFailure)
          => C27_InSync(activeTunnels', file')]_vars

\* A public address has been stored by the stdout callback, the save went
\* through, and the file mirrors the registry.
C27_Witness ==
  /\ last.op = "stdout"
  /\ last.save = "ok"
  /\ last.name \in DOMAIN activeTunnels
  /\ activeTunnels[last.name].publicUrl # Null
  /\ C27_InSync(activeTunnels, file)

====
